---- MODULE Spec2Model ----
(***************************************************************************)
(* PRESUBMIT.py of chromiumos-infra-go: the presubmit hook that runs       *)
(* ./run_tests.sh and turns its failure into a PresubmitError.             *)
(*                                                                         *)
(* One invocation of an entry point is a walk of pc through the lines of   *)
(* CommonChecks and CheckGolangRunTests.  Strings are sequences of         *)
(* one-character strings, so that formatting and "contains" are computed.  *)
(* The file carries no USE_PYTHON3 marker, so it is read as the host ran   *)
(* it: check_output yields a str and '%s' substitutes it unchanged.        *)
(***************************************************************************)
EXTENDS Integers, Sequences, FiniteSets, TLC

VARIABLES
    pc,          \* position of the (single-threaded) host call
    entry,       \* name the host called: CheckChangeOnUpload / CheckChangeOnCommit
    results,     \* local `results` of CommonChecks
    test_output, \* local `test_output` of CheckGolangRunTests
    error,       \* local `error` of CheckGolangRunTests (the caught exception)
    ret,         \* value returned by CheckGolangRunTests
    exc,         \* exception unwinding towards the host, or None
    outcome,     \* what the subprocess did in this invocation
    launched,    \* argv of every check_output call of this invocation
    constructed, \* number of output_api.PresubmitError calls of this invocation
    history      \* what the host observed: the two most recent completed invocations

vars == <<pc, entry, results, test_output, error, ret, exc, outcome, launched,
          constructed, history>>

----------------------------------------------------------------------------
(* Bounds of the environment *)

MaxOutLen == 1

Chars == {"F", "x"}

ExitCodes == {1, 2}

RECURSIVE StringsUpTo(_)
StringsUpTo(n) ==
    IF n = 0 THEN {<<>>}
    ELSE LET shorter == StringsUpTo(n - 1)
         IN shorter \cup {Append(s, c) : s \in {t \in shorter : Len(t) = n - 1}, c \in Chars}

Outputs == StringsUpTo(MaxOutLen)

----------------------------------------------------------------------------
(* Values *)

EntryPoints == {"CheckChangeOnUpload", "CheckChangeOnCommit"}

None == [type |-> "None", object |-> "", attr |-> ""]

NoOutcome == [kind |-> "NotRun", returncode |-> 0, hasOutput |-> FALSE, output |-> <<>>]

\* check_output returned: exit status 0, stdout captured.
Completed(o) == [kind |-> "Completed", returncode |-> 0, hasOutput |-> TRUE, output |-> o]

\* subprocess.CalledProcessError: non-zero exit, carries returncode and output.
CalledProcessError(rc, o) ==
    [kind |-> "CalledProcessError", returncode |-> rc, hasOutput |-> TRUE, output |-> o]

\* OSError: the script could not be started; the object has no `output` attribute.
OSError == [kind |-> "OSError", returncode |-> 0, hasOutput |-> FALSE, output |-> <<>>]

\* Any other Exception the host's subprocess object raises that does carry `output`.
HostError(o) == [kind |-> "HostError", returncode |-> 0, hasOutput |-> TRUE, output |-> o]

Outcomes ==
    {Completed(o) : o \in Outputs}
    \cup {CalledProcessError(rc, o) : rc \in ExitCodes, o \in Outputs}
    \cup {OSError}
    \cup {HostError(o) : o \in Outputs}

Failed(o) == o.kind \notin {"Completed", "NotRun"}

\* Python's AttributeError for `obj.attr` on an object without that attribute.
AttributeError(obj, attribute) ==
    [type |-> "AttributeError", object |-> obj.kind, attr |-> attribute]

\* output_api.PresubmitError(message): one positional argument, the message.
PresubmitError(message) == [type |-> "PresubmitError", message |-> message]

Argv == <<"./run_tests.sh">>

Head1 == <<"r", "u", "n", "_", "t", "e", "s", "t", "s", ".", "s", "h", " ",
           "f", "a", "i", "l", "e", "d", ".">>

Head2 == <<"\n", "o", "u", "t", "p", "u", "t", ":">>

\* 'run_tests.sh failed.\noutput:%s\n' % s
Format(s) == Head1 \o Head2 \o s \o <<"\n">>

DigitChars == <<"0", "1", "2", "3", "4", "5", "6", "7", "8", "9">>

MessageWithCode(e) == Format(e.output \o <<DigitChars[(e.returncode % 10) + 1]>>)

\* the argument of PresubmitError in the handler: only error.output is read.
Message(e) == Format(e.output)

Contains(s, sub) ==
    \E i \in 0..(Len(s) - Len(sub)) : SubSeq(s, i + 1, i + Len(sub)) = sub

StartsWith(s, pre) == Len(pre) <= Len(s) /\ SubSeq(s, 1, Len(pre)) = pre

----------------------------------------------------------------------------
(* The program *)

BindingMutant ==
    [e \in EntryPoints |->
        IF e = "CheckChangeOnCommit" THEN "CheckGolangRunTests" ELSE "CommonChecks"]

\* CheckChangeOnUpload = CommonChecks; CheckChangeOnCommit = CommonChecks
Binding == [e \in EntryPoints |-> "CommonChecks"]

Init ==
    /\ pc = "idle"
    /\ entry = "CheckChangeOnUpload"
    /\ results = <<>>
    /\ test_output = <<>>
    /\ error = NoOutcome
    /\ ret = <<>>
    /\ exc = None
    /\ outcome = NoOutcome
    /\ launched = <<>>
    /\ constructed = 0
    /\ history = <<>>

\* The host calls one of the two exposed names.  The names of the frame of
\* CheckGolangRunTests are unbound again; `results` is left to line 17, the
\* statement that initialises it.
Invoke(e) ==
    /\ pc = "idle"
    /\ pc' = Binding[e]
    /\ entry' = e
    /\ test_output' = <<>>
    /\ error' = NoOutcome
    /\ exc' = None
    /\ outcome' = NoOutcome
    /\ launched' = <<>>
    /\ constructed' = 0
    /\ UNCHANGED <<results, ret, history>>

CommonChecksBeginNoReset ==
    /\ pc = "CommonChecks"
    /\ pc' = "CheckGolangRunTests"
    /\ UNCHANGED <<entry, results, test_output, error, ret, exc, outcome, launched,
                   constructed, history>>

\* results = []
CommonChecksBegin ==
    /\ pc = "CommonChecks"
    /\ results' = <<>>
    /\ pc' = "CheckGolangRunTests"
    /\ UNCHANGED <<entry, test_output, error, ret, exc, outcome, launched,
                   constructed, history>>

\* try: input_api.subprocess.check_output(['./run_tests.sh']) is called and blocks.
StartSubprocess ==
    /\ pc = "CheckGolangRunTests"
    /\ launched' = Append(launched, Argv)
    /\ pc' = "check_output"
    /\ UNCHANGED <<entry, results, test_output, error, ret, exc, outcome,
                   constructed, history>>

\* check_output returns the captured output, or raises.
SubprocessCompletes(o) ==
    /\ pc = "check_output"
    /\ outcome' = o
    /\ IF Failed(o)
       THEN /\ error' = o
            /\ pc' = "except"
            /\ UNCHANGED test_output
       ELSE /\ test_output' = o.output
            /\ pc' = "return_empty"
            /\ UNCHANGED error
    /\ UNCHANGED <<entry, results, ret, exc, launched, constructed, history>>

HandleErrorRetry ==
    /\ pc = "except"
    /\ pc' = "CheckGolangRunTests"
    /\ UNCHANGED <<entry, results, test_output, error, ret, exc, outcome, launched,
                   constructed, history>>

\* except Exception as error: return [PresubmitError('...%s\n' % error.output)]
\* error.output is evaluated first; on an object without it Python raises
\* AttributeError inside the handler, and nothing catches that.
HandleError ==
    /\ pc = "except"
    /\ IF error.hasOutput
       THEN /\ constructed' = constructed + 1
            /\ ret' = <<PresubmitError(Message(error))>>
            /\ pc' = "extend"
            /\ UNCHANGED exc
       ELSE /\ exc' = AttributeError(error, "output")
            /\ pc' = "propagate"
            /\ UNCHANGED <<ret, constructed>>
    /\ UNCHANGED <<entry, results, test_output, error, outcome, launched, history>>

ReturnEmptyReportsOutput ==
    /\ pc = "return_empty"
    /\ constructed' = constructed + 1
    /\ ret' = <<PresubmitError(Format(test_output))>>
    /\ pc' = "extend"
    /\ UNCHANGED <<entry, results, test_output, error, exc, outcome, launched, history>>

\* return []
ReturnEmpty ==
    /\ pc = "return_empty"
    /\ ret' = <<>>
    /\ pc' = "extend"
    /\ UNCHANGED <<entry, results, test_output, error, exc, outcome, launched,
                   constructed, history>>

ExtendDropsResult ==
    /\ pc = "extend"
    /\ pc' = "return"
    /\ UNCHANGED <<entry, results, test_output, error, ret, exc, outcome, launched,
                   constructed, history>>

\* results.extend(CheckGolangRunTests(input_api, output_api))
Extend ==
    /\ pc = "extend"
    /\ results' = results \o ret
    /\ pc' = "return"
    /\ UNCHANGED <<entry, test_output, error, ret, exc, outcome, launched,
                   constructed, history>>

\* The host's view of a finished call; it keeps the two most recent.
Observe(h, status, value, raised) ==
    LET rec == [entry |-> entry, outcome |-> outcome, status |-> status,
                value |-> value, exc |-> raised, launched |-> launched,
                constructed |-> constructed]
    IN IF Len(h) < 2 THEN Append(h, rec) ELSE Append(Tail(h), rec)

\* return results
Return ==
    /\ pc = "return"
    /\ history' = Observe(history, "returned", results, None)
    /\ pc' = "idle"
    /\ UNCHANGED <<entry, results, test_output, error, ret, exc, outcome, launched,
                   constructed>>

\* The exception leaves CheckGolangRunTests and CommonChecks (neither has a
\* handler for it) and reaches the host.
Propagate ==
    /\ pc = "propagate"
    /\ history' = Observe(history, "raised", <<>>, exc)
    /\ pc' = "idle"
    /\ UNCHANGED <<entry, results, test_output, error, ret, exc, outcome, launched,
                   constructed>>

Next ==
    \/ \E e \in EntryPoints : Invoke(e)
    \/ CommonChecksBegin
    \/ StartSubprocess
    \/ \E o \in Outcomes : SubprocessCompletes(o)
    \/ HandleError
    \/ ReturnEmpty
    \/ Extend
    \/ Return
    \/ Propagate

Spec == Init /\ [][Next]_vars

----------------------------------------------------------------------------
(* What the host observed *)

Seen == {history[i] : i \in 1..Len(history)}

SameCompletion(a, b) == a.status = b.status /\ a.value = b.value /\ a.exc = b.exc

IsOneReport(v) == Len(v) = 1 /\ v[1].type = "PresubmitError"

----------------------------------------------------------------------------
(* Properties *)

\* C1: every failing execution of the subprocess (non-zero exit or launch
\* exception) makes the call return exactly one PresubmitError whose message
\* begins 'run_tests.sh failed.' and contains the captured output.
C1_FailureYieldsOneReport ==
    \A h \in Seen :
        Failed(h.outcome) =>
            /\ h.status = "returned"
            /\ IsOneReport(h.value)
            /\ StartsWith(h.value[1].message, Head1)
            /\ Contains(h.value[1].message, h.outcome.output)

\* C2: when the launch fails with an object that has no output attribute, the
\* call still returns normally with exactly one PresubmitError.
C2_NoOutputStillReports ==
    \A h \in Seen :
        (Failed(h.outcome) /\ ~h.outcome.hasOutput) =>
            h.status = "returned" /\ IsOneReport(h.value)

\* C3: whatever the subprocess does, the entry point ends by returning a list;
\* no exception ever unwinds to the host.
C3_NothingPropagates ==
    /\ pc # "propagate"
    /\ exc = None
    /\ \A h \in Seen : h.status = "returned" /\ h.exc = None

\* C4: when the subprocess exits 0, whatever it printed, CheckGolangRunTests
\* returns the empty list and so does CommonChecks.
C4_SuccessReturnsEmpty ==
    /\ (pc \in {"extend", "return"} /\ outcome.kind = "Completed") => ret = <<>>
    /\ (pc = "return" /\ outcome.kind = "Completed") => results = <<>>
    /\ \A h \in Seen :
        h.outcome.kind = "Completed" => h.status = "returned" /\ h.value = <<>>

C4_Witness ==
    \E h \in Seen :
        /\ h.outcome.kind = "Completed"
        /\ Len(h.outcome.output) > 0
        /\ h.status = "returned"
        /\ h.value = <<>>

\* C5: a call through CheckChangeOnUpload and a call through CheckChangeOnCommit
\* that meet the same subprocess outcome complete identically.
C5_EntryPointsAgree ==
    \A a \in Seen, b \in Seen :
        (a.entry # b.entry /\ a.outcome = b.outcome) => SameCompletion(a, b)

C5_Witness ==
    \E a \in Seen, b \in Seen :
        /\ a.entry = "CheckChangeOnUpload"
        /\ b.entry = "CheckChangeOnCommit"
        /\ a.outcome = b.outcome
        /\ Failed(a.outcome)
        /\ IsOneReport(a.value)
        /\ IsOneReport(b.value)

\* C6: CommonChecks returns exactly what its one registered check returned,
\* appended in order to the empty list: nothing added, dropped or reordered.
C6_AggregatorReturnsCheckResult ==
    /\ pc = "return" => results = ret
    /\ (pc = "idle" /\ Len(history) > 0 /\ history[Len(history)].status = "returned")
           => history[Len(history)].value = ret

C6_Witness ==
    /\ pc = "idle"
    /\ Len(history) > 0
    /\ history[Len(history)].status = "returned"
    /\ IsOneReport(history[Len(history)].value)
    /\ history[Len(history)].value = ret

\* C7: within one invocation ['./run_tests.sh'] is started exactly once, on
\* success and on failure alike; a failure ends that same invocation with the
\* failure shown (never an empty result) and without a second start.
C7_StartedExactlyOnce ==
    /\ Len(launched) <= 1
    /\ \A i \in 1..Len(launched) : launched[i] = Argv
    /\ pc \in {"check_output", "except", "return_empty", "extend", "return", "propagate"}
           => launched = <<Argv>>
    /\ \A h \in Seen :
        /\ h.launched = <<Argv>>
        /\ Failed(h.outcome) => ~(h.status = "returned" /\ h.value = <<>>)

C7_Witness ==
    \E h \in Seen :
        /\ Failed(h.outcome)
        /\ h.launched = <<Argv>>
        /\ h.status = "returned"
        /\ IsOneReport(h.value)

\* C8: PresubmitError is never called in an invocation whose subprocess
\* succeeded, and is called at most once in any invocation.
C8_ReportOnlyOnFailure ==
    /\ constructed <= 1
    /\ outcome.kind \in {"Completed", "NotRun"} => constructed = 0
    /\ \A h \in Seen :
        /\ h.constructed <= 1
        /\ h.outcome.kind = "Completed" => h.constructed = 0
        /\ h.constructed = Len(h.value)

C8_Witness ==
    \E a \in Seen, b \in Seen :
        /\ a.outcome.kind = "Completed"
        /\ a.constructed = 0
        /\ Failed(b.outcome)
        /\ b.constructed = 1

\* C9: nothing is carried from one invocation to the next: invocations that
\* meet the same outcome complete identically wherever they stand in the
\* sequence, a success after a failure returns the empty list, and a result
\* never holds more than the one report of its own invocation.
C9_NoCarriedState ==
    /\ \A a \in Seen, b \in Seen : a.outcome = b.outcome => SameCompletion(a, b)
    /\ \A h \in Seen : Len(h.value) <= 1
    /\ (Len(history) = 2 /\ Failed(history[1].outcome)
            /\ history[2].outcome.kind = "Completed")
           => history[2].status = "returned" /\ history[2].value = <<>>

C9_Witness ==
    /\ Len(history) = 2
    /\ Failed(history[1].outcome)
    /\ IsOneReport(history[1].value)
    /\ history[2].outcome.kind = "Completed"
    /\ history[2].value = <<>>

\* C10: the report is a function of the captured output alone: two failures
\* that carry the same output, whatever their exit codes or exception kinds,
\* yield the same result, which holds the fixed text and the output only.
C10_ReportDependsOnOutputOnly ==
    \A a \in Seen, b \in Seen :
        (/\ Failed(a.outcome) /\ a.outcome.hasOutput
         /\ Failed(b.outcome) /\ b.outcome.hasOutput
         /\ a.outcome.output = b.outcome.output)
        => /\ SameCompletion(a, b)
           /\ IsOneReport(a.value)
           /\ a.value[1].message = Head1 \o Head2 \o a.outcome.output \o <<"\n">>

C10_Witness ==
    \E a \in Seen, b \in Seen :
        /\ a.outcome.kind = "CalledProcessError"
        /\ b.outcome.kind = "CalledProcessError"
        /\ a.outcome.returncode # b.outcome.returncode
        /\ a.outcome.output = b.outcome.output
        /\ Len(a.outcome.output) > 0
        /\ SameCompletion(a, b)
        /\ IsOneReport(a.value)

\* Two failures of different exception kinds carrying the same output.
C10_WitnessKinds ==
    \E a \in Seen, b \in Seen :
        /\ a.outcome.kind = "CalledProcessError"
        /\ b.outcome.kind = "HostError"
        /\ a.outcome.output = b.outcome.output
        /\ SameCompletion(a, b)

====
